---- MODULE Spec2Model ----
(***************************************************************************)
(* A model of the data layer of the training-center course platform: the   *)
(* soft-delete / timestamp base classes (core/models.py), the two managers *)
(* over one table (core/managers.py), slug assignment (core/mixins.py),    *)
(* the course hierarchy (courses/models.py) and the enrollment / progress  *)
(* bookkeeping (enrollments/*.py).                                         *)
(*                                                                         *)
(* The database is one variable per table, each a function from primary    *)
(* key to row.  A request worker holds at most one in-memory model         *)
(* instance (inst[w]); loading and writing are separate steps, so stale    *)
(* instances exist.  seq[t] is the last value of table t's id sequence     *)
(* (PostgreSQL: a value is used up by every INSERT, also a refused one).   *)
(* `now` is the value timezone.now() returns next; every writing step      *)
(* advances it.  `last` records the most recent step.                      *)
(***************************************************************************)
EXTENDS Integers, Sequences, FiniteSets, TLC

VARIABLES courses, modules, lessons, students, enrollments, progress,
          seq, inst, now, last

vars == <<courses, modules, lessons, students, enrollments, progress,
          seq, inst, now, last>>

(***************************************************************************)
(* Bounds of the model.                                                    *)
(***************************************************************************)
MaxClock == 4
MaxModules == 2
MaxCourses == 3

\* Two request workers of the pool (gunicorn.conf.py: workers = 3): enough for
\* one request to run between the load and the write of another.
Workers == {1, 2}

(***************************************************************************)
(* Values.                                                                 *)
(***************************************************************************)
\* SQL NULL of a nullable DateTimeField (deleted_at, completed_at); real
\* timestamps are >= 1.
NULL == 0
\* pk of an instance that has not been saved yet (Python None).
NoPk == 0
NoRow == [id |-> NoPk]
NoInst == [model |-> "None"]
NoLast == [op |-> "init", w |-> 0, id |-> NoPk, ok |-> TRUE, out |-> "ok",
           pre |-> NoRow, n |-> 0, arg |-> <<>>]

ModuleTitles == {"Intro", "Basics"}
ModuleOrders == {0, 1}
\* The managers a caller can start a query from.
Managers == {"objects", "all_objects"}

TableNames == {"courses", "modules", "lessons", "students", "enrollments",
               "progress"}
\* AutoField: the next value of the table's id sequence.
NextPk(name) == seq[name] + 1
\* The sequence after a save that did, or did not, run an INSERT.
SeqAfter(name, r) == [seq EXCEPT ![name] = IF r.inserted THEN @ + 1 ELSE @]

(***************************************************************************)
(* core/managers.py: the two query surfaces and the queryset operations.   *)
(* A queryset is the set of primary keys it selects.                       *)
(***************************************************************************)
\* A default manager that forgets the filter.
Mutant_get_queryset_unfiltered(table) == DOMAIN table

\* SoftDeleteManager.get_queryset: .filter(is_deleted=False)
SoftDeleteManager_get_queryset(table) ==
    {id \in DOMAIN table : table[id].is_deleted = FALSE}

\* AllObjectsManager.get_queryset: unfiltered
AllObjectsManager_get_queryset(table) == DOMAIN table

\* SoftDeleteManager.deleted_only
SoftDeleteManager_deleted_only(table) ==
    {id \in DOMAIN table : table[id].is_deleted = TRUE}

Manager(mgr, table) ==
    IF mgr = "objects" THEN SoftDeleteManager_get_queryset(table)
                       ELSE AllObjectsManager_get_queryset(table)

\* SoftDeleteQuerySet.soft_delete: self.update(is_deleted=True,
\* deleted_at=timezone.now()) on the rows of the queryset; update() writes
\* exactly the named columns.
SoftDeleteQuerySet_soft_delete(table, qs, t) ==
    [id \in DOMAIN table |->
        IF id \in qs
        THEN [table[id] EXCEPT !.is_deleted = TRUE, !.deleted_at = t]
        ELSE table[id]]

\* SoftDeleteQuerySet.restore: self.update(is_deleted=False, deleted_at=None)
SoftDeleteQuerySet_restore(table, qs) ==
    [id \in DOMAIN table |->
        IF id \in qs
        THEN [table[id] EXCEPT !.is_deleted = FALSE, !.deleted_at = NULL]
        ELSE table[id]]

(***************************************************************************)
(* Model.save as the base classes use it.  `fields` is the update_fields   *)
(* argument: the set of column names, or AllFields for a full save.        *)
(*   - auto_now (updated_at) is stamped when the column is written;        *)
(*     auto_now_add (created_at) when the row is inserted;                 *)
(*   - an instance without pk is inserted under the next pk (nextpk);      *)
(*   - an instance with pk is UPDATEd, a full save falls back to INSERT    *)
(*     when no row has that pk, a partial save fails instead;              *)
(* The result is [ok, table, obj, inserted].  Constrained applies the      *)
(* table's unique                                                          *)
(* constraints: a write that breaks them is refused by the store           *)
(* (IntegrityError) and changes nothing.                                   *)
(***************************************************************************)
AllFields == {"*"}

TimestampedModel_pre_save(obj, fields, adding, t) ==
    LET o1 == IF fields = AllFields \/ "updated_at" \in fields
              THEN [obj EXCEPT !.updated_at = t] ELSE obj
    IN  IF adding THEN [o1 EXCEPT !.created_at = t] ELSE o1

Model_save(table, obj, fields, t, nextpk) ==
    LET exists == obj.id # NoPk /\ obj.id \in DOMAIN table
        adding == ~exists
        pk     == IF obj.id = NoPk THEN nextpk ELSE obj.id
        o      == [TimestampedModel_pre_save(obj, fields, adding, t)
                      EXCEPT !.id = pk]
        row    == IF fields = AllFields
                  THEN o
                  ELSE [f \in DOMAIN o |->
                          IF f \in fields THEN o[f] ELSE table[pk][f]]
        newtab == [id \in DOMAIN table \cup {pk} |->
                      IF id = pk THEN row ELSE table[id]]
    IN  IF fields # AllFields /\ ~exists
        THEN [ok |-> FALSE, table |-> table, obj |-> obj, inserted |-> FALSE]
        ELSE [ok |-> TRUE, table |-> newtab, obj |-> o,
              inserted |-> (obj.id = NoPk)]

Constrained(r, table, obj, valid) ==
    IF r.ok /\ ~valid
    THEN [ok |-> FALSE, table |-> table, obj |-> obj, inserted |-> r.inserted]
    ELSE r

(***************************************************************************)
(* core/models.py: SoftDeleteModel.                                        *)
(***************************************************************************)
\* delete() and restore() saving the whole instance.
Mutant_update_fields_full == AllFields

\* the update_fields of delete() and restore()
SoftDeleteModel_update_fields == {"is_deleted", "deleted_at", "updated_at"}

\* SoftDeleteModel.delete: the assignments to the instance
SoftDeleteModel_delete(obj, t) ==
    [obj EXCEPT !.is_deleted = TRUE, !.deleted_at = t]

\* SoftDeleteModel.restore: the assignments to the instance
SoftDeleteModel_restore(obj) ==
    [obj EXCEPT !.is_deleted = FALSE, !.deleted_at = NULL]

(***************************************************************************)
(* courses/models.py: Module.                                              *)
(***************************************************************************)
\* UniqueConstraint(fields=["course", "order"])
unique_module_order_per_course(table) ==
    \A a, b \in DOMAIN table :
        (table[a].course = table[b].course /\ table[a].order = table[b].order)
            => a = b

\* Model.save on the Module table
Module_save(table, obj, fields, t) ==
    LET r == Model_save(table, obj, fields, t, NextPk("modules"))
    IN  Constrained(r, table, obj, unique_module_order_per_course(r.table))

NewModule(c, ti, o) ==
    [id |-> NoPk, course |-> c, title |-> ti, order |-> o,
     is_deleted |-> FALSE, deleted_at |-> NULL,
     created_at |-> NULL, updated_at |-> NULL]

ModuleInst(obj) == [model |-> "Module", obj |-> obj]

\* The record of a step: the operation, the worker, the row it addressed, whether
\* it completed without an exception, the stored row before it, the number a
\* bulk operation returned (or the number of rows a view inserted), and the
\* operation's input where a property needs it.
Outcome(ok) == IF ok THEN "ok" ELSE "error"

Step(op, w, id, ok, pre, n) ==
    [op |-> op, w |-> w, id |-> id, ok |-> ok, out |-> Outcome(ok),
     pre |-> pre, n |-> n, arg |-> <<>>]

StepArg(op, w, id, ok, pre, arg) ==
    [op |-> op, w |-> w, id |-> id, ok |-> ok, out |-> Outcome(ok),
     pre |-> pre, n |-> 0, arg |-> arg]

\* The record of a view's request: out is the response ("redirect", "404") or
\* the exception that ended it.
StepView(op, id, out, pre, n, arg) ==
    [op |-> op, w |-> 0, id |-> id, ok |-> (out \in {"ok", "redirect"}),
     out |-> out, pre |-> pre, n |-> n, arg |-> arg]

RowOf(table, id) == IF id \in DOMAIN table THEN table[id] ELSE NoRow

\* Module(course=c, title=ti, order=o).save(): the admin's add form
ModuleCreate(w, c, ti, o) ==
    /\ now <= MaxClock
    /\ Cardinality(DOMAIN modules) < MaxModules
    /\ c \in DOMAIN courses
    /\ LET r == Module_save(modules, NewModule(c, ti, o), AllFields, now)
       IN  /\ modules' = r.table
           /\ seq' = SeqAfter("modules", r)
           /\ inst' = [inst EXCEPT ![w] =
                         IF r.ok THEN ModuleInst(r.obj) ELSE NoInst]
           /\ last' = Step("create", w, r.obj.id, r.ok, NoRow, 0)
    /\ now' = now + 1
    /\ UNCHANGED <<courses, lessons, students, enrollments, progress>>

\* Module.<mgr>.get(pk=id): a worker loads an instance
ModuleGet(w, mgr, id) ==
    /\ id \in Manager(mgr, modules)
    /\ inst[w] # ModuleInst(modules[id])
    /\ inst' = [inst EXCEPT ![w] = ModuleInst(modules[id])]
    /\ last' = Step("get", w, id, TRUE, modules[id], 0)
    /\ UNCHANGED <<courses, modules, lessons, students, enrollments,
                   progress, seq, now>>

\* instance.title = ti; instance.save()
ModuleSave(w, ti) ==
    /\ now <= MaxClock
    /\ inst[w].model = "Module"
    /\ LET obj == [inst[w].obj EXCEPT !.title = ti]
           r == Module_save(modules, obj, AllFields, now)
       IN  /\ modules' = r.table
           /\ seq' = SeqAfter("modules", r)
           /\ inst' = [inst EXCEPT ![w] = ModuleInst(r.obj)]
           /\ last' = Step("save", w, obj.id, r.ok, RowOf(modules, obj.id), 0)
    /\ now' = now + 1
    /\ UNCHANGED <<courses, lessons, students, enrollments, progress>>

\* instance.delete()
ModuleDelete(w) ==
    /\ now <= MaxClock
    /\ inst[w].model = "Module"
    /\ LET obj == SoftDeleteModel_delete(inst[w].obj, now)
           r == Module_save(modules, obj, SoftDeleteModel_update_fields, now)
       IN  /\ modules' = r.table
           /\ seq' = SeqAfter("modules", r)
           /\ inst' = [inst EXCEPT ![w] = ModuleInst(r.obj)]
           /\ last' = Step("delete", w, obj.id, r.ok, RowOf(modules, obj.id), 0)
    /\ now' = now + 1
    /\ UNCHANGED <<courses, lessons, students, enrollments, progress>>

\* instance.restore()
ModuleRestore(w) ==
    /\ now <= MaxClock
    /\ inst[w].model = "Module"
    /\ LET obj == SoftDeleteModel_restore(inst[w].obj)
           r == Module_save(modules, obj, SoftDeleteModel_update_fields, now)
       IN  /\ modules' = r.table
           /\ seq' = SeqAfter("modules", r)
           /\ inst' = [inst EXCEPT ![w] = ModuleInst(r.obj)]
           /\ last' = Step("restore", w, obj.id, r.ok, RowOf(modules, obj.id), 0)
    /\ now' = now + 1
    /\ UNCHANGED <<courses, lessons, students, enrollments, progress>>

\* A filter that selects every row of the manager.
Mutant_ModuleFilter_everything(mgr, flt) == Manager(mgr, modules)

\* Module.<mgr>.filter(title=flt), or .all() for flt = "all"
ModuleFilter(mgr, flt) ==
    {id \in Manager(mgr, modules) : flt = "all" \/ modules[id].title = flt}

\* Module.<mgr>.filter(...).delete(): SoftDeleteQuerySet.delete, which is
\* soft_delete; returns the number of rows updated
ModuleBulkSoftDelete(mgr, flt) ==
    /\ now <= MaxClock
    /\ LET qs == ModuleFilter(mgr, flt)
       IN  /\ qs # {}
           /\ modules' = SoftDeleteQuerySet_soft_delete(modules, qs, now)
           /\ last' = [Step("bulk_soft_delete", 0, NoPk, TRUE, NoRow,
                            Cardinality(qs)) EXCEPT !.arg = <<mgr, flt>>]
    /\ now' = now + 1
    /\ UNCHANGED <<courses, lessons, students, enrollments, progress, seq, inst>>

\* Module.<mgr>.filter(...).restore()
ModuleBulkRestore(mgr, flt) ==
    /\ now <= MaxClock
    /\ LET qs == ModuleFilter(mgr, flt)
       IN  /\ qs # {}
           /\ modules' = SoftDeleteQuerySet_restore(modules, qs)
           /\ last' = [Step("bulk_restore", 0, NoPk, TRUE, NoRow,
                            Cardinality(qs)) EXCEPT !.arg = <<mgr, flt>>]
    /\ now' = now + 1
    /\ UNCHANGED <<courses, lessons, students, enrollments, progress, seq, inst>>

\* courses/admin.py ModuleInline: fields = ("title", "order", "is_deleted").
\* The formset loads the row through the default manager, assigns the three
\* posted fields and saves the instance in full.
ModuleInline_fields(obj, ti, o, del) ==
    [obj EXCEPT !.title = ti, !.order = o, !.is_deleted = del]

ModuleInlineSave(id, ti, o, del) ==
    /\ now <= MaxClock
    /\ id \in SoftDeleteManager_get_queryset(modules)
    /\ LET obj == ModuleInline_fields(modules[id], ti, o, del)
           r == Module_save(modules, obj, AllFields, now)
       IN  /\ obj # modules[id]
           /\ modules' = r.table
           /\ seq' = SeqAfter("modules", r)
           /\ last' = Step("inline_save", 0, id, r.ok, modules[id], 0)
    /\ now' = now + 1
    /\ UNCHANGED <<courses, lessons, students, enrollments, progress, inst>>

(***************************************************************************)
(* The soft-delete life cycle of one table (Module): SpecModule.           *)
(***************************************************************************)
\* One course, already stored, for the modules to belong to.
SeedCourse ==
    [id |-> 1, title |-> <<"a">>, slug |-> <<"a">>,
     is_deleted |-> FALSE, deleted_at |-> NULL,
     created_at |-> 1, updated_at |-> 1]

EmptyTable == [id \in {} |-> NoRow]

InitModule ==
    /\ courses = [id \in {1} |-> SeedCourse]
    /\ modules = EmptyTable
    /\ lessons = EmptyTable
    /\ students = EmptyTable
    /\ enrollments = EmptyTable
    /\ progress = EmptyTable
    /\ seq = [t \in TableNames |-> IF t = "courses" THEN 1 ELSE 0]
    /\ inst = [w \in Workers |-> NoInst]
    /\ now = 1
    /\ last = NoLast

NextModule ==
    \/ \E w \in Workers, c \in DOMAIN courses, ti \in ModuleTitles,
          o \in ModuleOrders : ModuleCreate(w, c, ti, o)
    \/ \E w \in Workers, mgr \in Managers, id \in DOMAIN modules :
          ModuleGet(w, mgr, id)
    \/ \E w \in Workers, ti \in ModuleTitles : ModuleSave(w, ti)
    \/ \E w \in Workers : ModuleDelete(w)
    \/ \E w \in Workers : ModuleRestore(w)
    \/ \E mgr \in Managers : ModuleBulkSoftDelete(mgr, "all")
    \/ \E mgr \in Managers : ModuleBulkRestore(mgr, "all")
    \/ \E id \in DOMAIN modules, ti \in ModuleTitles, o \in ModuleOrders,
          del \in BOOLEAN : ModuleInlineSave(id, ti, o, del)

SpecModule == InitModule /\ [][NextModule]_vars

(***************************************************************************)
(* Bulk operations on filtered querysets of one table (Module): SpecBulk.  *)
(* Rows are created and edited through the admin inline; querysets are     *)
(* filtered by title or unfiltered, on either manager.                     *)
(***************************************************************************)
NextBulk ==
    \/ \E c \in DOMAIN courses, ti \in ModuleTitles, o \in ModuleOrders :
          ModuleCreate(1, c, ti, o)
    \/ \E mgr \in Managers, flt \in ModuleTitles \cup {"all"} :
          ModuleBulkSoftDelete(mgr, flt)
    \/ \E mgr \in Managers, flt \in ModuleTitles \cup {"all"} :
          ModuleBulkRestore(mgr, flt)
    \/ \E id \in DOMAIN modules, ti \in ModuleTitles, o \in ModuleOrders,
          del \in BOOLEAN : ModuleInlineSave(id, ti, o, del)

SpecBulk == InitModule /\ [][NextBulk]_vars

(***************************************************************************)
(* Properties of the soft-delete life cycle (SpecModule).                  *)
(***************************************************************************)
\* C1: after delete(E) the default view (objects) does not contain E and the
\* all-records view (all_objects) still does; after restore(E) the default
\* view contains E again.  Neither call fails.
C1_DeleteHidesRestoreShows ==
    /\ last.op = "delete" =>
          /\ last.ok
          /\ last.id \notin SoftDeleteManager_get_queryset(modules)
          /\ last.id \in AllObjectsManager_get_queryset(modules)
    /\ last.op = "restore" =>
          /\ last.ok
          /\ last.id \in SoftDeleteManager_get_queryset(modules)

\* a restore of a row that a delete had hidden
C1_Witness ==
    /\ last.op = "restore"
    /\ last.pre.is_deleted
    /\ last.pre.deleted_at # NULL
    /\ last.id \in SoftDeleteManager_get_queryset(modules)

\* C2: in every stored state, every row has is_deleted = true exactly when
\* deleted_at is not null.
C2_FlagMatchesTimestamp ==
    \A id \in DOMAIN modules :
        modules[id].is_deleted <=> (modules[id].deleted_at # NULL)

\* The columns of a Module row that delete() and restore() do not name.
ModuleOtherFields == {"id", "course", "title", "order", "created_at"}

\* C10: delete(record) writes only is_deleted, deleted_at and updated_at:
\* every other column of the stored row keeps the value it had in the store
\* just before the delete, whatever the deleting worker's copy holds.
C10_DeleteWritesOnlyItsFields ==
    last.op = "delete" =>
        /\ last.ok
        /\ \A f \in ModuleOtherFields : modules[last.id][f] = last.pre[f]
        /\ modules[last.id].is_deleted = TRUE
        /\ modules[last.id].deleted_at = now - 1
        /\ modules[last.id].updated_at = now - 1

\* the deleting worker loaded the row before another worker changed its title
C10_Witness ==
    /\ last.op = "delete"
    /\ last.ok
    /\ inst[last.w].obj.title # modules[last.id].title
    /\ \E w \in Workers : /\ w # last.w
                          /\ inst[w] # NoInst
                          /\ inst[w].obj.id = last.id
                          /\ inst[w].obj.title = modules[last.id].title

\* the rows a filter on a manager selects, read off the stored rows
Matching(mgr, flt) ==
    {id \in DOMAIN modules :
        /\ mgr = "all_objects" \/ ~modules[id].is_deleted
        /\ flt = "all" \/ modules[id].title = flt}

\* C11: a bulk delete or restore on a filtered queryset sets is_deleted and
\* deleted_at on exactly the rows the filter matches (TRUE and the time of the
\* call, or FALSE and null), leaves their other columns and every other row
\* as they were, removes no row, and returns the number of matching rows.
C11_BulkTouchesOnlyFiltered ==
    [][last'.op \in {"bulk_soft_delete", "bulk_restore"} =>
          LET qs == Matching(last'.arg[1], last'.arg[2])
              del == (last'.op = "bulk_soft_delete")
          IN  /\ DOMAIN modules' = DOMAIN modules
              /\ \A id \in DOMAIN modules \ qs : modules'[id] = modules[id]
              /\ \A id \in qs :
                    /\ modules'[id].is_deleted = del
                    /\ modules'[id].deleted_at = (IF del THEN now ELSE NULL)
                    /\ \A f \in ModuleOtherFields :
                          modules'[id][f] = modules[id][f]
              /\ last'.n = Cardinality(qs)]_vars

\* a bulk delete filtered on one title, with a row of the other title left
\* in the default view
C11_Witness ==
    /\ last.op = "bulk_soft_delete"
    /\ last.arg = <<"objects", "Intro">>
    /\ last.n = 1
    /\ \E a, b \in DOMAIN modules :
          /\ modules[a].title = "Intro"
          /\ modules[a].is_deleted
          /\ modules[a].deleted_at = now - 1
          /\ modules[b].title = "Basics"
          /\ ~modules[b].is_deleted

\* C15: a stored record's created_at never changes, and every operation that
\* changes a stored record (a save, an instance delete or restore, a bulk
\* soft_delete or restore on a queryset) leaves its updated_at at the time
\* of that operation.
C15_TimestampsMaintained ==
    [][\A id \in DOMAIN modules \cap DOMAIN modules' :
          /\ modules'[id].created_at = modules[id].created_at
          /\ modules'[id] # modules[id] => modules'[id].updated_at = now]_vars

\* C20: a record that a completed delete() took out of the default view
\* comes back into it only by a restore; a full save by a worker that loaded
\* the record before the delete does not bring it back.
C20_DeletedStaysHiddenUntilRestore ==
    [][\A id \in DOMAIN modules \cap DOMAIN modules' :
          (/\ modules[id].is_deleted
           /\ modules[id].deleted_at # NULL
           /\ id \in SoftDeleteManager_get_queryset(modules'))
             => last'.op \in {"restore", "bulk_restore"}]_vars

(***************************************************************************)
(* core/mixins.py: SlugMixin.  Text is a sequence of characters.           *)
(***************************************************************************)
UpperToLower == [c \in {"A", "B"} |-> IF c = "A" THEN "a" ELSE "b"]
\* str.lower()
Lower(s) == [i \in 1..Len(s) |->
                IF s[i] \in DOMAIN UpperToLower THEN UpperToLower[s[i]]
                                                ELSE s[i]]
\* \w and \s of the regular expressions, over the characters of the model
WordChars == {"a", "b", "0", "1", "2", "3", "4", "5", "6", "7", "8", "9", "_"}
SpaceChars == {" "}
IsSlugChar(c) == c \in WordChars \cup SpaceChars \cup {"-"}
IsSeparator(c) == c \in SpaceChars \cup {"-"}

RECURSIVE LStrip(_, _)
LStrip(s, chars) ==
    IF s # <<>> /\ Head(s) \in chars THEN LStrip(Tail(s), chars) ELSE s

RECURSIVE RStrip(_, _)
RStrip(s, chars) ==
    IF s # <<>> /\ s[Len(s)] \in chars
    THEN RStrip(SubSeq(s, 1, Len(s) - 1), chars) ELSE s

\* str.strip(chars)
Strip(s, chars) == RStrip(LStrip(s, chars), chars)

\* re.sub(r"[-\s]+", "-", value)
RECURSIVE CollapseSeparators(_)
CollapseSeparators(s) ==
    IF s = <<>> THEN <<>>
    ELSE IF IsSeparator(Head(s))
         THEN <<"-">> \o CollapseSeparators(LStrip(s, SpaceChars \cup {"-"}))
         ELSE <<Head(s)>> \o CollapseSeparators(Tail(s))

\* django.utils.text.slugify (allow_unicode=False) on ASCII text:
\*   value = re.sub(r"[^\w\s-]", "", value.lower())
\*   return re.sub(r"[-\s]+", "-", value).strip("-_")
slugify(s) ==
    Strip(CollapseSeparators(SelectSeq(Lower(s), IsSlugChar)), {"-", "_"})

\* SlugMixin._get_slug_source_value: str(title or "").strip()
_get_slug_source_value(obj) == Strip(obj.title, SpaceChars)

\* _generate_base_slug without the fallback.
Mutant_generate_base_slug_no_fallback(obj, tok) ==
    slugify(_get_slug_source_value(obj))

\* SlugMixin._generate_base_slug; tok is what str(uuid.uuid4())[:8] returns
_generate_base_slug(obj, tok) ==
    LET base == slugify(_get_slug_source_value(obj))
    IN  IF base = <<>> THEN tok ELSE base

Digits == <<"0", "1", "2", "3", "4", "5", "6", "7", "8", "9">>
\* str(counter)
RECURSIVE Str(_)
Str(n) == IF n < 10 THEN <<Digits[n + 1]>>
          ELSE Str(n \div 10) \o <<Digits[(n % 10) + 1]>>

\* f"{base_slug}-{counter}"
Suffixed(base, counter) == base \o <<"-">> \o Str(counter)

\* the while loop of _generate_unique_slug
RECURSIVE SlugLoop(_, _, _, _)
SlugLoop(slug, base, counter, taken) ==
    IF slug \in taken
    THEN SlugLoop(Suffixed(base, counter), base, counter + 1, taken)
    ELSE slug

\* A uniqueness check that looks at the default view only.
Mutant_slug_queryset_default_view(table, obj) ==
    SoftDeleteManager_get_queryset(table) \ {obj.id}

\* ModelClass.all_objects.all().exclude(pk=self.pk)
SlugQuerySet(table, obj) == AllObjectsManager_get_queryset(table) \ {obj.id}

\* SlugMixin._generate_unique_slug
_generate_unique_slug(table, obj, tok) ==
    LET base_slug == _generate_base_slug(obj, tok)
        taken == {table[id].slug : id \in SlugQuerySet(table, obj)}
    IN  SlugLoop(base_slug, base_slug, 2, taken)

\* A save that regenerates the slug every time.
Mutant_needs_slug_always(obj) == TRUE

\* "if not self.slug"
NeedsSlug(obj) == obj.slug = <<>>

\* A database without the unique index on slug.
Mutant_unique_slug_absent(table) == TRUE

\* slug = models.SlugField(unique=True)
unique_slug(table) ==
    \A a, b \in DOMAIN table : table[a].slug = table[b].slug => a = b

\* SlugMixin.save, then Model.save
SlugMixin_save(table, obj, fields, t, tok) ==
    LET o == IF NeedsSlug(obj)
             THEN [obj EXCEPT !.slug = _generate_unique_slug(table, obj, tok)]
             ELSE obj
        r == Model_save(table, o, fields, t, NextPk("courses"))
    IN  Constrained(r, table, o, unique_slug(r.table))

(***************************************************************************)
(* courses/models.py: Course(SlugMixin, SoftDeleteModel), and its life     *)
(* cycle with saves that do not overlap: SpecSlug.                         *)
(***************************************************************************)
\* the titles a caller passes: blank, "a", "A!", "a 2"
CourseTitles == {<<>>, <<"a">>, <<"A", "!">>, <<"a", " ", "2">>}

\* str(uuid.uuid4())[:8]
UuidPrefixLen == 8
RandomTokens == {[i \in 1..UuidPrefixLen |-> "a"],
                 [i \in 1..UuidPrefixLen |-> "b"]}

NewCourse(ti) ==
    [id |-> NoPk, title |-> ti, slug |-> <<>>,
     is_deleted |-> FALSE, deleted_at |-> NULL,
     created_at |-> NULL, updated_at |-> NULL]

CourseInst(obj) == [model |-> "Course", obj |-> obj]

\* Course(title=ti).save(): the first save of a new record.  The step records
\* the base token the slug was derived from.
CourseCreate(w, ti, tok) ==
    /\ now <= MaxClock
    /\ Cardinality(DOMAIN courses) < MaxCourses
    /\ LET r == SlugMixin_save(courses, NewCourse(ti), AllFields, now, tok)
       IN  /\ courses' = r.table
           /\ seq' = SeqAfter("courses", r)
           /\ inst' = [inst EXCEPT ![w] =
                         IF r.ok THEN CourseInst(r.obj) ELSE NoInst]
           /\ last' = StepArg("create", w, r.obj.id, r.ok, NoRow,
                              _generate_base_slug(NewCourse(ti), tok))
    /\ now' = now + 1
    /\ UNCHANGED <<modules, lessons, students, enrollments, progress>>

\* Course.<mgr>.get(pk=id)
CourseGet(w, mgr, id) ==
    /\ id \in Manager(mgr, courses)
    /\ inst[w] # CourseInst(courses[id])
    /\ inst' = [inst EXCEPT ![w] = CourseInst(courses[id])]
    /\ last' = Step("get", w, id, TRUE, courses[id], 0)
    /\ UNCHANGED <<courses, modules, lessons, students, enrollments,
                   progress, seq, now>>

\* instance.title = ti; instance.save()
CourseSave(w, ti, tok) ==
    /\ now <= MaxClock
    /\ inst[w].model = "Course"
    /\ LET obj == [inst[w].obj EXCEPT !.title = ti]
           r == SlugMixin_save(courses, obj, AllFields, now, tok)
       IN  /\ courses' = r.table
           /\ seq' = SeqAfter("courses", r)
           /\ inst' = [inst EXCEPT ![w] = CourseInst(r.obj)]
           /\ last' = Step("save", w, obj.id, r.ok, RowOf(courses, obj.id), 0)
    /\ now' = now + 1
    /\ UNCHANGED <<modules, lessons, students, enrollments, progress>>

\* instance.delete(): SoftDeleteModel.delete calls self.save, SlugMixin.save
CourseDelete(w, tok) ==
    /\ now <= MaxClock
    /\ inst[w].model = "Course"
    /\ LET obj == SoftDeleteModel_delete(inst[w].obj, now)
           r == SlugMixin_save(courses, obj, SoftDeleteModel_update_fields,
                               now, tok)
       IN  /\ courses' = r.table
           /\ seq' = SeqAfter("courses", r)
           /\ inst' = [inst EXCEPT ![w] = CourseInst(r.obj)]
           /\ last' = Step("delete", w, obj.id, r.ok, RowOf(courses, obj.id), 0)
    /\ now' = now + 1
    /\ UNCHANGED <<modules, lessons, students, enrollments, progress>>

\* instance.restore()
CourseRestore(w, tok) ==
    /\ now <= MaxClock
    /\ inst[w].model = "Course"
    /\ LET obj == SoftDeleteModel_restore(inst[w].obj)
           r == SlugMixin_save(courses, obj, SoftDeleteModel_update_fields,
                               now, tok)
       IN  /\ courses' = r.table
           /\ seq' = SeqAfter("courses", r)
           /\ inst' = [inst EXCEPT ![w] = CourseInst(r.obj)]
           /\ last' = Step("restore", w, obj.id, r.ok, RowOf(courses, obj.id), 0)
    /\ now' = now + 1
    /\ UNCHANGED <<modules, lessons, students, enrollments, progress>>

InitSlug ==
    /\ courses = EmptyTable
    /\ modules = EmptyTable
    /\ lessons = EmptyTable
    /\ students = EmptyTable
    /\ enrollments = EmptyTable
    /\ progress = EmptyTable
    /\ seq = [t \in TableNames |-> 0]
    /\ inst = [w \in Workers |-> NoInst]
    /\ now = 1
    /\ last = NoLast

\* Saves that do not overlap: one worker runs every request to its end.
SlugWorkers == {1}

NextSlug ==
    \/ \E w \in SlugWorkers, ti \in CourseTitles, tok \in RandomTokens :
          CourseCreate(w, ti, tok)
    \/ \E w \in SlugWorkers, mgr \in Managers, id \in DOMAIN courses :
          CourseGet(w, mgr, id)
    \/ \E w \in SlugWorkers, ti \in CourseTitles, tok \in RandomTokens :
          CourseSave(w, ti, tok)
    \/ \E w \in SlugWorkers, tok \in RandomTokens : CourseDelete(w, tok)
    \/ \E w \in SlugWorkers, tok \in RandomTokens : CourseRestore(w, tok)

SpecSlug == InitSlug /\ [][NextSlug]_vars

(***************************************************************************)
(* Properties of slug assignment (SpecSlug).                               *)
(***************************************************************************)
\* C3: once a record is stored with a slug, no later step (a save with a
\* changed title, a delete, a restore) changes the slug of the stored row.
C3_SlugNeverChanges ==
    [][\A id \in DOMAIN courses :
          /\ id \in DOMAIN courses'
          /\ courses'[id].slug = courses[id].slug]_vars

\* a stored record was saved again with a title that gives another base token
C3_Witness ==
    /\ last.op = "save"
    /\ last.ok
    /\ last.pre # NoRow
    /\ courses[last.id].title # last.pre.title
    /\ slugify(courses[last.id].title) # <<>>
    /\ slugify(courses[last.id].title) # slugify(last.pre.title)
    /\ courses[last.id].slug = last.pre.slug

\* The slugs of the rows other than id, soft-deleted rows included.
OtherSlugs(id) == {courses[j].slug : j \in DOMAIN courses \ {id}}

\* C4: no two rows have the same slug, soft-deleted rows included, and a first
\* save never fails: the record gets its base token when no other row uses
\* it, and otherwise base-k for the smallest k >= 2 that no other row uses.
C4_SlugsUniqueSmallestSuffix ==
    /\ \A a, b \in DOMAIN courses :
          courses[a].slug = courses[b].slug => a = b
    /\ last.op = "create" =>
          /\ last.ok
          /\ LET base == last.arg
                 slug == courses[last.id].slug
                 used == OtherSlugs(last.id)
             IN  IF base \notin used
                 THEN slug = base
                 ELSE \E k \in 2..(Cardinality(DOMAIN courses) + 1) :
                        /\ slug = Suffixed(base, k)
                        /\ slug \notin used
                        /\ \A j \in 2..(k - 1) : Suffixed(base, j) \in used

\* the base token is held by a soft-deleted row and base-2 by another row, so
\* the new record is given base-3
C4_Witness ==
    /\ last.op = "create"
    /\ last.ok
    /\ courses[last.id].slug = Suffixed(last.arg, 3)
    /\ \E j \in DOMAIN courses : /\ courses[j].slug = last.arg
                                 /\ courses[j].is_deleted

\* C5: every stored record has a non-empty slug, whatever its title; a first
\* save with a title that gives no base token succeeds.
C5_SlugNeverEmpty ==
    /\ \A id \in DOMAIN courses : courses[id].slug # <<>>
    /\ last.op = "create" => (last.ok /\ last.id \in DOMAIN courses)

\* a record whose title transliterates to the empty string was stored
C5_Witness ==
    /\ last.op = "create"
    /\ last.ok
    /\ slugify(_get_slug_source_value(courses[last.id])) = <<>>
    /\ courses[last.id].slug \in RandomTokens

(***************************************************************************)
(* profiles/models.py: Student; enrollments/models.py: Enrollment;         *)
(* enrollments/views.py: enroll_in_course.                                 *)
(***************************************************************************)
\* the authenticated users that send requests (login_required)
Users == {1, 2}

\* Student.user = OneToOneField(CustomUser): unique
unique_student_user(table) ==
    \A a, b \in DOMAIN table : table[a].user = table[b].user => a = b

\* UniqueConstraint(fields=["student", "course"])
unique_enrollment_per_student(table) ==
    \A a, b \in DOMAIN table :
        (table[a].student = table[b].student
            /\ table[a].course = table[b].course) => a = b

NewStudent(u) ==
    [id |-> NoPk, user |-> u, is_deleted |-> FALSE, deleted_at |-> NULL,
     created_at |-> NULL, updated_at |-> NULL]

\* enrolled_at is auto_now_add: stamped by the INSERT
NewEnrollment(st, c, t) ==
    [id |-> NoPk, student |-> st, course |-> c, enrolled_at |-> t,
     is_deleted |-> FALSE, deleted_at |-> NULL,
     created_at |-> NULL, updated_at |-> NULL]

Student_save(table, obj, fields, t) ==
    LET r == Model_save(table, obj, fields, t, NextPk("students"))
    IN  Constrained(r, table, obj, unique_student_user(r.table))

Enrollment_save(table, obj, fields, t) ==
    LET r == Model_save(table, obj, fields, t, NextPk("enrollments"))
    IN  Constrained(r, table, obj, unique_enrollment_per_student(r.table))

\* get_object_or_404(Course, slug=slug): the default manager's rows with the
\* slug; empty means Http404
CourseBySlug(slug) ==
    {c \in SoftDeleteManager_get_queryset(courses) : courses[c].slug = slug}

\* Student.objects.get(user=u)
StudentLookup(table, u) ==
    {id \in SoftDeleteManager_get_queryset(table) : table[id].user = u}

\* A view that creates the enrollment without looking for one.
Mutant_enrollment_lookup_none(table, st, c) == {}

\* Enrollment.objects.get(student=st, course=c)
EnrollmentLookup(table, st, c) ==
    {id \in SoftDeleteManager_get_queryset(table) :
        table[id].student = st /\ table[id].course = c}

\* QuerySet.get_or_create: get(); on DoesNotExist create(); on IntegrityError
\* get() once more and, when that finds nothing either, raise the
\* IntegrityError.  found is what get() selects, r the result of create().
\* The result is [ok, id, created, table, inserted].
get_or_create(found, table, r) ==
    IF found # {}
    THEN [ok |-> TRUE, id |-> CHOOSE id \in found : TRUE, created |-> FALSE,
          table |-> table, inserted |-> FALSE]
    ELSE IF r.ok
    THEN [ok |-> TRUE, id |-> r.obj.id, created |-> TRUE, table |-> r.table,
          inserted |-> TRUE]
    ELSE [ok |-> FALSE, id |-> NoPk, created |-> FALSE, table |-> table,
          inserted |-> r.inserted]

\* Student.objects.get_or_create(user=u)
Student_get_or_create(table, u, t) ==
    get_or_create(StudentLookup(table, u), table,
                  Student_save(table, NewStudent(u), AllFields, t))

\* Enrollment.objects.get_or_create(student=st, course=c)
Enrollment_get_or_create(table, st, c, t) ==
    get_or_create(EnrollmentLookup(table, st, c), table,
                  Enrollment_save(table, NewEnrollment(st, c, t), AllFields, t))

\* The enrollment the default view holds for user u and course c, if any.
LiveEnrollment(u, c) ==
    LET sts == StudentLookup(students, u)
        es == {e \in SoftDeleteManager_get_queryset(enrollments) :
                  enrollments[e].student \in sts /\ enrollments[e].course = c}
    IN  IF es = {} THEN NoRow ELSE enrollments[CHOOSE e \in es : TRUE]

Count(b) == IF b THEN 1 ELSE 0

\* enroll_in_course(request, slug), request.user = u; each statement commits
\* on its own (autocommit), so a student created before a failing
\* enrollment insert stays.
enroll_in_course(u, slug) ==
    LET cs == CourseBySlug(slug)
    IN  IF cs = {}
        THEN /\ last' = StepView("enroll", NoPk, "404", NoRow, 0, <<u, slug>>)
             /\ UNCHANGED <<students, enrollments, seq, now>>
        ELSE
        LET c == CHOOSE x \in cs : TRUE
            pre == LiveEnrollment(u, c)
            s == Student_get_or_create(students, u, now)
            e == Enrollment_get_or_create(enrollments, s.id, c, now)
            seq1 == [seq EXCEPT !["students"] = @ + Count(s.inserted)]
        IN  IF ~s.ok
            THEN /\ last' = StepView("enroll", NoPk, "IntegrityError", pre, 0,
                                     <<u, slug>>)
                 /\ students' = students
                 /\ enrollments' = enrollments
                 /\ seq' = seq1
                 /\ now' = now + 1
            ELSE /\ students' = s.table
                 /\ enrollments' = e.table
                 /\ seq' = [seq1 EXCEPT !["enrollments"] = @ + Count(e.inserted)]
                 /\ now' = now + Count(s.inserted \/ e.inserted)
                 /\ last' = StepView("enroll", e.id,
                                     IF e.ok THEN "redirect"
                                             ELSE "IntegrityError",
                                     pre, Count(s.created) + Count(e.created),
                                     <<u, slug>>)

Enroll(u, slug) ==
    /\ now <= MaxClock
    /\ enroll_in_course(u, slug)
    /\ UNCHANGED <<courses, modules, lessons, progress, inst>>

\* <Model>.objects.filter(pk=id).delete() and
\* <Model>.all_objects.filter(pk=id).restore() on the three tables the view
\* reads: the admin's delete action, and a restore from the shell.
EnrollmentSoftDelete(id) ==
    /\ now <= MaxClock
    /\ id \in SoftDeleteManager_get_queryset(enrollments)
    /\ enrollments' = SoftDeleteQuerySet_soft_delete(enrollments, {id}, now)
    /\ last' = Step("enrollment_soft_delete", 0, id, TRUE, enrollments[id], 1)
    /\ now' = now + 1
    /\ UNCHANGED <<courses, modules, lessons, students, progress, seq, inst>>

EnrollmentRestore(id) ==
    /\ now <= MaxClock
    /\ id \in SoftDeleteManager_deleted_only(enrollments)
    /\ enrollments' = SoftDeleteQuerySet_restore(enrollments, {id})
    /\ last' = Step("enrollment_restore", 0, id, TRUE, enrollments[id], 1)
    /\ now' = now + 1
    /\ UNCHANGED <<courses, modules, lessons, students, progress, seq, inst>>

StudentSoftDelete(id) ==
    /\ now <= MaxClock
    /\ id \in SoftDeleteManager_get_queryset(students)
    /\ students' = SoftDeleteQuerySet_soft_delete(students, {id}, now)
    /\ last' = Step("student_soft_delete", 0, id, TRUE, students[id], 1)
    /\ now' = now + 1
    /\ UNCHANGED <<courses, modules, lessons, enrollments, progress, seq, inst>>

StudentRestore(id) ==
    /\ now <= MaxClock
    /\ id \in SoftDeleteManager_deleted_only(students)
    /\ students' = SoftDeleteQuerySet_restore(students, {id})
    /\ last' = Step("student_restore", 0, id, TRUE, students[id], 1)
    /\ now' = now + 1
    /\ UNCHANGED <<courses, modules, lessons, enrollments, progress, seq, inst>>

CourseSoftDelete(id) ==
    /\ now <= MaxClock
    /\ id \in SoftDeleteManager_get_queryset(courses)
    /\ courses' = SoftDeleteQuerySet_soft_delete(courses, {id}, now)
    /\ last' = Step("course_soft_delete", 0, id, TRUE, courses[id], 1)
    /\ now' = now + 1
    /\ UNCHANGED <<modules, lessons, students, enrollments, progress, seq, inst>>

CourseBulkRestore(id) ==
    /\ now <= MaxClock
    /\ id \in SoftDeleteManager_deleted_only(courses)
    /\ courses' = SoftDeleteQuerySet_restore(courses, {id})
    /\ last' = Step("course_restore", 0, id, TRUE, courses[id], 1)
    /\ now' = now + 1
    /\ UNCHANGED <<modules, lessons, students, enrollments, progress, seq, inst>>

(***************************************************************************)
(* Enrollment requests handled one after another: SpecEnroll.              *)
(***************************************************************************)
\* Two published courses, "a" and "a 2".
SeedCourse2 ==
    [id |-> 2, title |-> <<"a", " ", "2">>, slug |-> <<"a", "-", "2">>,
     is_deleted |-> FALSE, deleted_at |-> NULL,
     created_at |-> 1, updated_at |-> 1]

SeedCourses == [id \in {1, 2} |-> IF id = 1 THEN SeedCourse ELSE SeedCourse2]

\* the slugs of the requested URLs: the two courses', and one no course has
RequestSlugs == {SeedCourse.slug, SeedCourse2.slug, <<"b">>}

InitEnroll ==
    /\ courses = SeedCourses
    /\ modules = EmptyTable
    /\ lessons = EmptyTable
    /\ students = EmptyTable
    /\ enrollments = EmptyTable
    /\ progress = EmptyTable
    /\ seq = [t \in TableNames |-> IF t = "courses" THEN 2 ELSE 0]
    /\ inst = [w \in Workers |-> NoInst]
    /\ now = 1
    /\ last = NoLast

NextEnroll ==
    \/ \E u \in Users, slug \in RequestSlugs : Enroll(u, slug)
    \/ \E id \in DOMAIN enrollments : EnrollmentSoftDelete(id)
    \/ \E id \in DOMAIN enrollments : EnrollmentRestore(id)
    \/ \E id \in DOMAIN students : StudentSoftDelete(id)
    \/ \E id \in DOMAIN students : StudentRestore(id)
    \/ \E id \in DOMAIN courses : CourseSoftDelete(id)
    \/ \E id \in DOMAIN courses : CourseBulkRestore(id)

SpecEnroll == InitEnroll /\ [][NextEnroll]_vars

\* C6: a (student, course) pair never has two Enrollment rows, and a call of
\* enroll_in_course for a pair that is already enrolled creates no row, ends
\* without an error and yields the row the earlier call created, unchanged;
\* every successful call leaves exactly one row for the pair.
C6_EnrollTwiceOneRow ==
    /\ \A a, b \in DOMAIN enrollments :
          (enrollments[a].student = enrollments[b].student
              /\ enrollments[a].course = enrollments[b].course) => a = b
    /\ (last.op = "enroll" /\ last.pre # NoRow) =>
          /\ last.out = "redirect"
          /\ last.n = 0
          /\ last.id = last.pre.id
          /\ enrollments[last.id] = last.pre
    /\ (last.op = "enroll" /\ last.out = "redirect") =>
          /\ last.id \in DOMAIN enrollments
          /\ students[enrollments[last.id].student].user = last.arg[1]
          /\ courses[enrollments[last.id].course].slug = last.arg[2]
          /\ Cardinality({e \in DOMAIN enrollments :
                 /\ enrollments[e].student = enrollments[last.id].student
                 /\ enrollments[e].course = enrollments[last.id].course}) = 1

\* a second call for a pair the first call enrolled
C6_Witness ==
    /\ last.op = "enroll"
    /\ last.pre # NoRow
    /\ last.out = "redirect"
    /\ last.n = 0
    /\ last.id = last.pre.id
    /\ Cardinality(DOMAIN enrollments) = 1

(***************************************************************************)
(* enrollments/models.py: LessonProgress.                                  *)
(***************************************************************************)
NewLesson(m, o) ==
    [id |-> NoPk, module |-> m, order |-> o,
     is_deleted |-> FALSE, deleted_at |-> NULL,
     created_at |-> NULL, updated_at |-> NULL]

NewLessonProgress(e, l, done) ==
    [id |-> NoPk, enrollment |-> e, lesson |-> l,
     is_completed |-> done, completed_at |-> NULL,
     is_deleted |-> FALSE, deleted_at |-> NULL,
     created_at |-> NULL, updated_at |-> NULL]

\* UniqueConstraint(fields=["enrollment", "lesson"])
unique_progress_per_lesson(table) ==
    \A a, b \in DOMAIN table :
        (table[a].enrollment = table[b].enrollment
            /\ table[a].lesson = table[b].lesson) => a = b

\* the two foreign keys of a stored LessonProgress point at stored rows
LessonProgress_foreign_keys(table) ==
    \A p \in DOMAIN table :
        table[p].enrollment \in DOMAIN enrollments
            /\ table[p].lesson \in DOMAIN lessons

\* LessonProgress.save without its elif branch.
Mutant_LessonProgress_stamp_no_clear(obj, t) ==
    IF obj.is_completed /\ obj.completed_at = NULL
    THEN [obj EXCEPT !.completed_at = t]
    ELSE obj

\* LessonProgress.save: the assignments made before super().save()
LessonProgress_stamp(obj, t) ==
    IF obj.is_completed /\ obj.completed_at = NULL
    THEN [obj EXCEPT !.completed_at = t]
    ELSE IF ~obj.is_completed
         THEN [obj EXCEPT !.completed_at = NULL]
         ELSE obj

\* LessonProgress.save
LessonProgress_save(table, obj, fields, t) ==
    LET o == LessonProgress_stamp(obj, t)
        r == Model_save(table, o, fields, t, NextPk("progress"))
    IN  Constrained(r, table, o,
                    unique_progress_per_lesson(r.table)
                        /\ LessonProgress_foreign_keys(r.table))

ProgressInst(obj) == [model |-> "LessonProgress", obj |-> obj]

\* LessonProgress(enrollment=e, lesson=l, is_completed=done).save(): the
\* extra row of the admin's inline
ProgressCreate(e, l, done) ==
    /\ now <= MaxClock
    /\ e \in SoftDeleteManager_get_queryset(enrollments)
    /\ l \in SoftDeleteManager_get_queryset(lessons)
    /\ LET r == LessonProgress_save(progress, NewLessonProgress(e, l, done),
                                    AllFields, now)
       IN  /\ progress' = r.table
           /\ seq' = SeqAfter("progress", r)
           /\ last' = StepArg("progress_create", 0, r.obj.id, r.ok, NoRow,
                              <<done>>)
    /\ now' = now + 1
    /\ UNCHANGED <<courses, modules, lessons, students, enrollments, inst>>

\* LessonProgress.<mgr>.get(pk=id)
ProgressGet(w, mgr, id) ==
    /\ id \in Manager(mgr, progress)
    /\ inst[w] # ProgressInst(progress[id])
    /\ inst' = [inst EXCEPT ![w] = ProgressInst(progress[id])]
    /\ last' = Step("progress_get", w, id, TRUE, progress[id], 0)
    /\ UNCHANGED <<courses, modules, lessons, students, enrollments,
                   progress, seq, now>>

\* instance.is_completed = done; instance.save()
ProgressSave(w, done) ==
    /\ now <= MaxClock
    /\ inst[w].model = "LessonProgress"
    /\ LET obj == [inst[w].obj EXCEPT !.is_completed = done]
           r == LessonProgress_save(progress, obj, AllFields, now)
       IN  /\ progress' = r.table
           /\ seq' = SeqAfter("progress", r)
           /\ inst' = [inst EXCEPT ![w] = ProgressInst(r.obj)]
           /\ last' = StepArg("progress_save", w, obj.id, r.ok,
                              RowOf(progress, obj.id), <<done>>)
    /\ now' = now + 1
    /\ UNCHANGED <<courses, modules, lessons, students, enrollments>>

\* instance.delete(): SoftDeleteModel.delete calls LessonProgress.save with
\* update_fields
ProgressDelete(w) ==
    /\ now <= MaxClock
    /\ inst[w].model = "LessonProgress"
    /\ LET obj == SoftDeleteModel_delete(inst[w].obj, now)
           r == LessonProgress_save(progress, obj,
                                    SoftDeleteModel_update_fields, now)
       IN  /\ progress' = r.table
           /\ seq' = SeqAfter("progress", r)
           /\ inst' = [inst EXCEPT ![w] = ProgressInst(r.obj)]
           /\ last' = Step("progress_delete", w, obj.id, r.ok,
                           RowOf(progress, obj.id), 0)
    /\ now' = now + 1
    /\ UNCHANGED <<courses, modules, lessons, students, enrollments>>

\* instance.restore()
ProgressRestore(w) ==
    /\ now <= MaxClock
    /\ inst[w].model = "LessonProgress"
    /\ LET obj == SoftDeleteModel_restore(inst[w].obj)
           r == LessonProgress_save(progress, obj,
                                    SoftDeleteModel_update_fields, now)
       IN  /\ progress' = r.table
           /\ seq' = SeqAfter("progress", r)
           /\ inst' = [inst EXCEPT ![w] = ProgressInst(r.obj)]
           /\ last' = Step("progress_restore", w, obj.id, r.ok,
                           RowOf(progress, obj.id), 0)
    /\ now' = now + 1
    /\ UNCHANGED <<courses, modules, lessons, students, enrollments>>

\* enrollments/admin.py, LessonProgressInline: the form's editable fields
\* (completed_at is read-only)
LessonProgressInline_fields(obj, done, del) ==
    [obj EXCEPT !.is_completed = done, !.is_deleted = del]

\* The inline's formset loads the enrollment's rows with the default manager
\* and saves each changed form's instance.
ProgressInlineSave(id, done, del) ==
    /\ now <= MaxClock
    /\ id \in SoftDeleteManager_get_queryset(progress)
    /\ LET obj == LessonProgressInline_fields(progress[id], done, del)
           r == LessonProgress_save(progress, obj, AllFields, now)
       IN  /\ obj # progress[id]
           /\ progress' = r.table
           /\ seq' = SeqAfter("progress", r)
           /\ last' = StepArg("progress_inline", 0, id, r.ok, progress[id],
                              <<done>>)
    /\ now' = now + 1
    /\ UNCHANGED <<courses, modules, lessons, students, enrollments, inst>>

\* Lesson.objects.filter(pk=id).delete() and
\* Lesson.all_objects.filter(pk=id).restore()
LessonSoftDelete(id) ==
    /\ now <= MaxClock
    /\ id \in SoftDeleteManager_get_queryset(lessons)
    /\ lessons' = SoftDeleteQuerySet_soft_delete(lessons, {id}, now)
    /\ last' = Step("lesson_soft_delete", 0, id, TRUE, lessons[id], 1)
    /\ now' = now + 1
    /\ UNCHANGED <<courses, modules, students, enrollments, progress, seq, inst>>

LessonRestore(id) ==
    /\ now <= MaxClock
    /\ id \in SoftDeleteManager_deleted_only(lessons)
    /\ lessons' = SoftDeleteQuerySet_restore(lessons, {id})
    /\ last' = Step("lesson_restore", 0, id, TRUE, lessons[id], 1)
    /\ now' = now + 1
    /\ UNCHANGED <<courses, modules, students, enrollments, progress, seq, inst>>

(***************************************************************************)
(* enrollments/admin.py: EnrollmentAdmin, the progress column.             *)
(***************************************************************************)
\* SQL NULL as the value of an annotation (a Subquery without a row)
SqlNull == -1

\* _total_lessons: Lesson.objects.filter(module__course=OuterRef("course"),
\* is_deleted=False), counted; the join does not look at the module's flag
total_lessons(e) ==
    LET ls == {l \in SoftDeleteManager_get_queryset(lessons) :
                  /\ ~lessons[l].is_deleted
                  /\ lessons[l].module \in DOMAIN modules
                  /\ modules[lessons[l].module].course = enrollments[e].course}
    IN  IF ls = {} THEN SqlNull ELSE Cardinality(ls)

\* _completed_lessons: Count("lesson_progress", filter=Q(is_completed=True,
\* is_deleted=False))
completed_lessons(e) ==
    Cardinality({p \in DOMAIN progress :
                    /\ progress[p].enrollment = e
                    /\ progress[p].is_completed
                    /\ ~progress[p].is_deleted})

\* Python's "x or 0" on an annotation
OrZero(v) == IF v = SqlNull \/ v = 0 THEN 0 ELSE v

\* int((completed / total) * 100); the float quotient of two counts up to 3
\* truncates to the integer quotient
Percentage(completed, total) ==
    IF total = 0
    THEN [out |-> "ZeroDivisionError", text |-> <<>>]
    ELSE [out |-> "ok",
          text |-> <<completed, total, (completed * 100) \div total>>]

\* progress_display without its "if total == 0" return.
Mutant_progress_display_unguarded(total_annot, completed_annot) ==
    Percentage(OrZero(completed_annot), OrZero(total_annot))

\* progress_display(obj): text is <<c, t, p>> for the string "c/t (p%)"
progress_display(total_annot, completed_annot) ==
    LET total == OrZero(total_annot)
        completed == OrZero(completed_annot)
    IN  IF total = 0
        THEN [out |-> "ok", text |-> <<0, 0, 0>>]
        ELSE Percentage(completed, total)

\* The change list renders the progress column of an enrollment of
\* get_queryset, which starts from the default manager.
ProgressDisplay(e) ==
    /\ e \in SoftDeleteManager_get_queryset(enrollments)
    /\ LET d == progress_display(total_lessons(e), completed_lessons(e))
       IN  last' = StepView("progress_display", e, d.out, enrollments[e],
                            completed_lessons(e), d.text)
    /\ UNCHANGED <<courses, modules, lessons, students, enrollments,
                   progress, seq, inst, now>>

(***************************************************************************)
(* core/models.py: SoftDeleteModel.hard_delete, Django's deletion          *)
(* collector over the foreign keys of the models.                          *)
(***************************************************************************)
Enrollment_course_on_delete == "PROTECT"

\* LessonProgress.lesson declared with on_delete=CASCADE.
Mutant_lesson_on_delete_cascade == "CASCADE"

LessonProgress_lesson_on_delete == "PROTECT"

HardDeleteModels == {"Course", "Module", "Lesson", "Enrollment", "LessonProgress"}

\* Collector.collect: the rows reached through CASCADE foreign keys, and
\* whether a PROTECT foreign key points at one of them.  Related rows are
\* read with the base manager, which does not filter on is_deleted.
Collector_collect(model, id) ==
    LET cs == IF model = "Course" THEN {id} ELSE {}
        ms == IF model = "Module" THEN {id}
              ELSE {m \in DOMAIN modules : modules[m].course \in cs}
        ls == IF model = "Lesson" THEN {id}
              ELSE {l \in DOMAIN lessons : lessons[l].module \in ms}
        byCourse == {e \in DOMAIN enrollments : enrollments[e].course \in cs}
        es == IF model = "Enrollment" THEN {id}
              ELSE IF Enrollment_course_on_delete = "CASCADE" THEN byCourse
              ELSE {}
        byLesson == {p \in DOMAIN progress : progress[p].lesson \in ls}
        ps == (IF model = "LessonProgress" THEN {id} ELSE {})
                 \cup {p \in DOMAIN progress : progress[p].enrollment \in es}
                 \cup (IF LessonProgress_lesson_on_delete = "CASCADE"
                       THEN byLesson ELSE {})
    IN  [protected |->
            \/ Enrollment_course_on_delete = "PROTECT" /\ byCourse # {}
            \/ LessonProgress_lesson_on_delete = "PROTECT" /\ byLesson # {},
         courses |-> cs, modules |-> ms, lessons |-> ls,
         enrollments |-> es, progress |-> ps]

Without(table, ids) == [id \in DOMAIN table \ ids |-> table[id]]

TableOf(model) ==
    CASE model = "Course" -> courses
      [] model = "Module" -> modules
      [] model = "Lesson" -> lessons
      [] model = "Enrollment" -> enrollments
      [] model = "LessonProgress" -> progress

\* <Model>.all_objects.get(pk=id).hard_delete(): Model.delete collects, raises
\* ProtectedError before any row is removed, or removes what it collected in
\* one transaction.
HardDelete(model, id) ==
    /\ now <= MaxClock
    /\ id \in AllObjectsManager_get_queryset(TableOf(model))
    /\ LET c == Collector_collect(model, id)
       IN  IF c.protected
           THEN /\ UNCHANGED <<courses, modules, lessons, enrollments, progress>>
                /\ last' = StepView("hard_delete", id, "ProtectedError",
                                    TableOf(model)[id], 0, <<model>>)
           ELSE /\ courses' = Without(courses, c.courses)
                /\ modules' = Without(modules, c.modules)
                /\ lessons' = Without(lessons, c.lessons)
                /\ enrollments' = Without(enrollments, c.enrollments)
                /\ progress' = Without(progress, c.progress)
                /\ last' = StepView("hard_delete", id, "ok",
                                    TableOf(model)[id],
                                    Cardinality(c.courses)
                                        + Cardinality(c.modules)
                                        + Cardinality(c.lessons)
                                        + Cardinality(c.enrollments)
                                        + Cardinality(c.progress),
                                    <<model>>)
    /\ now' = now + 1
    /\ UNCHANGED <<students, seq, inst>>

(***************************************************************************)
(* Progress records of an enrolled student: SpecProgress.                  *)
(***************************************************************************)
\* Two courses with one module and one lesson each; a student enrolled in
\* the first.
SeedModules ==
    [id \in {1, 2} |->
        [id |-> id, course |-> id,
         title |-> IF id = 1 THEN "Intro" ELSE "Basics", order |-> 0,
         is_deleted |-> FALSE, deleted_at |-> NULL,
         created_at |-> 1, updated_at |-> 1]]

SeedLessons ==
    [id \in {1, 2} |->
        [NewLesson(id, 0) EXCEPT !.id = id, !.created_at = 1, !.updated_at = 1]]

SeedStudents ==
    [id \in {1} |->
        [NewStudent(1) EXCEPT !.id = 1, !.created_at = 1, !.updated_at = 1]]

SeedEnrollments ==
    [id \in {1} |->
        [NewEnrollment(1, 1, 1) EXCEPT !.id = 1, !.created_at = 1,
                                       !.updated_at = 1]]

ProgressWorkers == {1}

InitProgress ==
    /\ courses = SeedCourses
    /\ modules = SeedModules
    /\ lessons = SeedLessons
    /\ students = SeedStudents
    /\ enrollments = SeedEnrollments
    /\ progress = EmptyTable
    /\ seq = [t \in TableNames |->
                 IF t = "progress" THEN 0
                 ELSE IF t \in {"students", "enrollments"} THEN 1 ELSE 2]
    /\ inst = [w \in Workers |-> NoInst]
    /\ now = 1
    /\ last = NoLast

NextProgress ==
    \/ \E e \in DOMAIN enrollments, l \in DOMAIN lessons, done \in BOOLEAN :
          ProgressCreate(e, l, done)
    \/ \E w \in ProgressWorkers, mgr \in Managers, id \in DOMAIN progress :
          ProgressGet(w, mgr, id)
    \/ \E w \in ProgressWorkers, done \in BOOLEAN : ProgressSave(w, done)
    \/ \E w \in ProgressWorkers : ProgressDelete(w)
    \/ \E w \in ProgressWorkers : ProgressRestore(w)
    \/ \E id \in DOMAIN progress, done, del \in BOOLEAN :
          ProgressInlineSave(id, done, del)
    \/ \E id \in DOMAIN lessons : LessonSoftDelete(id)
    \/ \E id \in DOMAIN lessons : LessonRestore(id)
    \/ \E e \in DOMAIN enrollments : ProgressDisplay(e)
    \/ \E model \in HardDeleteModels, id \in 1..2 : HardDelete(model, id)

SpecProgress == InitProgress /\ [][NextProgress]_vars

ProgressSaves == {"progress_create", "progress_save", "progress_inline"}

\* C7: every stored LessonProgress has is_completed = TRUE exactly when its
\* completed_at is not null, and a save() that went through stored the
\* is_completed it was given, with a non-null completed_at when that is TRUE
\* and a null one when it is FALSE.
C7_CompletedMatchesTimestamp ==
    /\ \A p \in DOMAIN progress :
          progress[p].is_completed <=> (progress[p].completed_at # NULL)
    /\ (last.op \in ProgressSaves /\ last.ok) =>
          /\ last.id \in DOMAIN progress
          /\ progress[last.id].is_completed = last.arg[1]
          /\ last.arg[1] => progress[last.id].completed_at # NULL
          /\ ~last.arg[1] => progress[last.id].completed_at = NULL

\* a completed progress toggled back to incomplete by a save
C7_Witness ==
    /\ last.op \in {"progress_save", "progress_inline"}
    /\ last.ok
    /\ last.pre # NoRow
    /\ last.pre.is_completed
    /\ last.pre.completed_at # NULL
    /\ ~last.arg[1]
    /\ progress[last.id].completed_at = NULL

\* the lessons of course c that are not soft-deleted
NonDeletedLessons(c) ==
    {l \in DOMAIN lessons :
        /\ ~lessons[l].is_deleted
        /\ lessons[l].module \in DOMAIN modules
        /\ modules[lessons[l].module].course = c}

\* C8: the progress column of an enrollment whose course has no non-deleted
\* lesson is computed without an error and shows 0%, however many
\* LessonProgress rows the enrollment has.
C8_NoLessonsZeroPercent ==
    (/\ last.op = "progress_display"
     /\ last.id \in DOMAIN enrollments
     /\ NonDeletedLessons(enrollments[last.id].course) = {})
        => (last.out = "ok" /\ last.arg = <<0, 0, 0>>)

\* the column of an enrollment with a completed progress row, in a course
\* whose lessons are all soft-deleted
C8_Witness ==
    /\ last.op = "progress_display"
    /\ last.out = "ok"
    /\ last.id \in DOMAIN enrollments
    /\ NonDeletedLessons(enrollments[last.id].course) = {}
    /\ last.n >= 1
    /\ last.arg[3] = 0

\* the lessons a hard delete of the row id of a model reaches
LessonsBelow(model, id) ==
    {l \in DOMAIN lessons :
        \/ model = "Lesson" /\ l = id
        \/ model = "Module" /\ lessons[l].module = id
        \/ /\ model = "Course"
           /\ lessons[l].module \in DOMAIN modules
           /\ modules[lessons[l].module].course = id}

\* a Course with an Enrollment row, or a Lesson (or the Module or Course
\* above it) with a LessonProgress row
Referenced(model, id) ==
    \/ /\ model = "Course"
       /\ \E e \in DOMAIN enrollments : enrollments[e].course = id
    \/ /\ model \in {"Course", "Module", "Lesson"}
       /\ \E p \in DOMAIN progress : progress[p].lesson \in LessonsBelow(model, id)

\* C9: a hard_delete of a Course that an Enrollment row references, or that
\* reaches (directly or by cascade from the Course or Module) a Lesson that a
\* LessonProgress row references, ends with ProtectedError and leaves every
\* table as it was.
C9_ProtectedHardDeleteRejected ==
    [][(last'.op = "hard_delete" /\ Referenced(last'.arg[1], last'.id))
          => /\ last'.out = "ProtectedError"
             /\ <<courses, modules, lessons, students, enrollments, progress>>'
                   = <<courses, modules, lessons, students, enrollments, progress>>]_vars

\* a refused hard delete of a course nobody is enrolled in, one of whose
\* lessons has a progress row
C9_Witness ==
    /\ last.op = "hard_delete"
    /\ last.arg = <<"Course">>
    /\ last.out = "ProtectedError"
    /\ last.id \in DOMAIN courses
    /\ ~\E e \in DOMAIN enrollments : enrollments[e].course = last.id
    /\ \E p \in DOMAIN progress : progress[p].lesson \in LessonsBelow("Course", last.id)

(***************************************************************************)
(* courses/managers.py: CourseQuerySet.with_full_counts, and               *)
(* core/managers.py: SoftDeleteQuerySet.with_counts.                       *)
(***************************************************************************)
MaxLessonsPerModule == 3
MaxEnrollments == 5

\* The rows of  course LEFT JOIN modules LEFT JOIN lessons LEFT JOIN
\* enrollments  for course c, as <<module, lesson, enrollment>>; a side
\* without a row gives NULL (NoPk).  The joins do not filter on is_deleted.
OrNull(ids) == IF ids = {} THEN {NoPk} ELSE ids

JoinRows(c) ==
    LET ms == OrNull({m \in DOMAIN modules : modules[m].course = c})
        es == OrNull({e \in DOMAIN enrollments : enrollments[e].course = c})
        ls(m) == OrNull({l \in DOMAIN lessons : lessons[l].module = m})
    IN  UNION {{<<m, l, e>> : l \in ls(m), e \in es} : m \in ms}

\* Count(relation) without distinct=True: every joined row with a value.
Mutant_Count_not_distinct(rows, col) ==
    Cardinality({r \in rows : r[col] # NoPk})

\* Count(relation, distinct=True)
Count_distinct(rows, col) ==
    Cardinality({r[col] : r \in rows} \ {NoPk})

\* with_full_counts: modules_count, lessons_count, enrollments_count
with_full_counts(c) ==
    <<Count_distinct(JoinRows(c), 1),
      Count_distinct(JoinRows(c), 2),
      Count_distinct(JoinRows(c), 3)>>

\* CourseQuerySet(Course).filter(is_deleted=False).with_full_counts(),
\* the annotations of course c
WithFullCounts(c) ==
    /\ c \in SoftDeleteManager_get_queryset(courses)
    /\ last' = StepView("with_full_counts", c, "ok", courses[c], 0,
                        with_full_counts(c))
    /\ UNCHANGED <<courses, modules, lessons, students, enrollments,
                   progress, seq, inst, now>>

\* A catalogue for the counts: course 1 with nm modules, module m with
\* lc[m] lessons, and ne enrollments; course 2 with one module, one lesson
\* and one enrollment.
RECURSIVE LessonsUpTo(_, _)
LessonsUpTo(lc, m) == IF m = 0 THEN 0 ELSE lc[m] + LessonsUpTo(lc, m - 1)

CountedModules(nm) ==
    [id \in 1..(nm + 1) |->
        [id |-> id, course |-> IF id <= nm THEN 1 ELSE 2,
         title |-> "Intro", order |-> id,
         is_deleted |-> FALSE, deleted_at |-> NULL,
         created_at |-> 1, updated_at |-> 1]]

CountedLessons(nm, lc) ==
    [id \in 1..(LessonsUpTo(lc, nm) + 1) |->
        LET m == IF id > LessonsUpTo(lc, nm) THEN nm + 1
                 ELSE CHOOSE k \in 1..nm :
                         LessonsUpTo(lc, k - 1) < id /\ id <= LessonsUpTo(lc, k)
        IN  [NewLesson(m, id) EXCEPT !.id = id, !.created_at = 1,
                                     !.updated_at = 1]]

CountedStudents(ne) ==
    [id \in 1..(ne + 1) |->
        [NewStudent(id) EXCEPT !.id = id, !.created_at = 1, !.updated_at = 1]]

CountedEnrollments(ne) ==
    [id \in 1..(ne + 1) |->
        [NewEnrollment(id, IF id <= ne THEN 1 ELSE 2, 1)
            EXCEPT !.id = id, !.created_at = 1, !.updated_at = 1]]

InitCounts ==
    \E nm \in 0..MaxModules, ne \in 0..MaxEnrollments :
    \E lc \in [1..nm -> 0..MaxLessonsPerModule] :
        /\ courses = SeedCourses
        /\ modules = CountedModules(nm)
        /\ lessons = CountedLessons(nm, lc)
        /\ students = CountedStudents(ne)
        /\ enrollments = CountedEnrollments(ne)
        /\ progress = EmptyTable
        /\ seq = [t \in TableNames |->
                     CASE t = "courses" -> 2
                       [] t = "modules" -> nm + 1
                       [] t = "lessons" -> LessonsUpTo(lc, nm) + 1
                       [] t \in {"students", "enrollments"} -> ne + 1
                       [] OTHER -> 0]
        /\ inst = [w \in Workers |-> NoInst]
        /\ now = 1
        /\ last = NoLast

NextCounts ==
    \/ \E c \in DOMAIN courses : WithFullCounts(c)
    \/ \E id \in DOMAIN courses : CourseSoftDelete(id)
    \/ \E id \in DOMAIN courses : CourseBulkRestore(id)

SpecCounts == InitCounts /\ [][NextCounts]_vars

SlugCheck(w, ti, tok) ==
    /\ IF inst[w] = NoInst THEN TRUE ELSE inst[w].obj.id # NoPk
    /\ Cardinality(DOMAIN courses) < MaxCourses
    /\ LET obj == NewCourse(ti)
           slug == _generate_unique_slug(courses, obj, tok)
       IN  /\ inst' = [inst EXCEPT ![w] = CourseInst([obj EXCEPT !.slug = slug])]
           /\ last' = StepArg("slug_check", w, NoPk, TRUE, NoRow, slug)
    /\ UNCHANGED <<courses, modules, lessons, students, enrollments,
                   progress, seq, now>>

\* super().save(): the INSERT; a slug another row holds raises IntegrityError
\* out of save()
SlugWrite(w) ==
    /\ now <= MaxClock
    /\ inst[w].model = "Course"
    /\ inst[w].obj.id = NoPk
    /\ inst[w].obj.slug # <<>>
    /\ LET obj == inst[w].obj
           r == SlugMixin_save(courses, obj, AllFields, now, <<>>)
       IN  /\ courses' = r.table
           /\ seq' = SeqAfter("courses", r)
           /\ inst' = [inst EXCEPT ![w] = CourseInst(r.obj)]
           /\ last' = [StepArg("slug_write", w, r.obj.id, r.ok, NoRow, obj.slug)
                          EXCEPT !.out = IF r.ok THEN "ok" ELSE "IntegrityError"]
    /\ now' = now + 1
    /\ UNCHANGED <<modules, lessons, students, enrollments, progress>>

NextSlugRace ==
    \/ \E w \in Workers, ti \in CourseTitles, tok \in RandomTokens :
          SlugCheck(w, ti, tok)
    \/ \E w \in Workers : SlugWrite(w)

SpecSlugRace == InitSlug /\ [][NextSlugRace]_vars

\* C13: however the check and write steps of two first saves interleave, no
\* two stored rows have the same slug; a write whose slug another row
\* already holds ends with IntegrityError at the caller and stores nothing,
\* and a write reported as successful stored its row under its slug.
C13_SlugRaceConflictPropagates ==
    /\ \A a, b \in DOMAIN courses : courses[a].slug = courses[b].slug => a = b
    /\ last.op = "slug_write" =>
          IF \E id \in DOMAIN courses \ {last.id} : courses[id].slug = last.arg
          THEN /\ ~last.ok
               /\ last.out = "IntegrityError"
               /\ last.id = NoPk
               /\ inst[last.w].obj.id = NoPk
          ELSE /\ last.ok
               /\ last.id \in DOMAIN courses
               /\ courses[last.id].slug = last.arg

\* both workers computed the same slug before either wrote; the second write
\* was refused
C13_Witness ==
    /\ last.op = "slug_write"
    /\ last.out = "IntegrityError"
    /\ \E w \in Workers \ {last.w} :
          /\ inst[w].model = "Course"
          /\ inst[w].obj.id \in DOMAIN courses
          /\ inst[w].obj.slug = last.arg
          /\ courses[inst[w].obj.id].created_at = now - 2
    /\ Cardinality({id \in DOMAIN courses : courses[id].slug = last.arg}) = 1

(***************************************************************************)
(* enrollments/views.py: two enroll_in_course requests whose statements    *)
(* interleave: SpecEnrollRace.  Each worker's request is a record in inst; *)
(* pc is the statement it executes next.  get_or_create is get(), then the *)
(* INSERT, then - after an IntegrityError - get() once more.               *)
(***************************************************************************)
\* A create() whose IntegrityError is raised at once.
Mutant_on_integrity_error_raise == "raise"

\* get_or_create: what follows an IntegrityError of the INSERT
get_or_create_on_integrity_error == "get"

Request(pc, u, slug, c, st, out, lost) ==
    [model |-> "Request", pc |-> pc, user |-> u, slug |-> slug, course |-> c,
     student |-> st, out |-> out, lost |-> lost]

Running(w) == IF inst[w].model = "Request" THEN inst[w].pc # "done" ELSE FALSE

ReqLast(w, req) ==
    [StepArg("request", w, NoPk, req.out # "IntegrityError", NoRow,
             <<req.user, req.slug>>) EXCEPT !.out = req.pc]

\* course = get_object_or_404(Course, slug=slug)
ReqStart(w, u, slug) ==
    /\ ~Running(w)
    /\ LET cs == CourseBySlug(slug)
           req == IF cs = {}
                  THEN Request("done", u, slug, NoPk, NoPk, "404", FALSE)
                  ELSE Request("student_get", u, slug, CHOOSE c \in cs : TRUE,
                               NoPk, "", FALSE)
       IN  /\ inst[w] # req
           /\ inst' = [inst EXCEPT ![w] = req]
           /\ last' = ReqLast(w, req)
    /\ UNCHANGED <<courses, modules, lessons, students, enrollments,
                   progress, seq, now>>

\* Student.objects.get_or_create(user=request.user): get(), and again after
\* an IntegrityError
ReqStudentGet(w) ==
    /\ Running(w)
    /\ inst[w].pc \in {"student_get", "student_retry"}
    /\ LET found == StudentLookup(students, inst[w].user)
           req == IF found # {}
                  THEN [inst[w] EXCEPT !.pc = "enrollment_get",
                                       !.student = CHOOSE id \in found : TRUE]
                  ELSE IF inst[w].pc = "student_get"
                  THEN [inst[w] EXCEPT !.pc = "student_create"]
                  ELSE [inst[w] EXCEPT !.pc = "done", !.out = "IntegrityError"]
       IN  /\ inst' = [inst EXCEPT ![w] = req]
           /\ last' = ReqLast(w, req)
    /\ UNCHANGED <<courses, modules, lessons, students, enrollments,
                   progress, seq, now>>

\* ... create(): the INSERT of the Student
ReqStudentCreate(w) ==
    /\ now <= MaxClock
    /\ Running(w)
    /\ inst[w].pc = "student_create"
    /\ LET r == Student_save(students, NewStudent(inst[w].user), AllFields, now)
           req == IF r.ok
                  THEN [inst[w] EXCEPT !.pc = "enrollment_get",
                                       !.student = r.obj.id]
                  ELSE IF get_or_create_on_integrity_error = "get"
                  THEN [inst[w] EXCEPT !.pc = "student_retry", !.lost = TRUE]
                  ELSE [inst[w] EXCEPT !.pc = "done", !.lost = TRUE,
                                       !.out = "IntegrityError"]
       IN  /\ students' = r.table
           /\ seq' = SeqAfter("students", r)
           /\ inst' = [inst EXCEPT ![w] = req]
           /\ last' = ReqLast(w, req)
    /\ now' = now + 1
    /\ UNCHANGED <<courses, modules, lessons, enrollments, progress>>

\* Enrollment.objects.get_or_create(student=student, course=course): get(),
\* and again after an IntegrityError; then redirect(...)
ReqEnrollmentGet(w) ==
    /\ Running(w)
    /\ inst[w].pc \in {"enrollment_get", "enrollment_retry"}
    /\ LET found == EnrollmentLookup(enrollments, inst[w].student,
                                     inst[w].course)
           req == IF found # {}
                  THEN [inst[w] EXCEPT !.pc = "done", !.out = "redirect"]
                  ELSE IF inst[w].pc = "enrollment_get"
                  THEN [inst[w] EXCEPT !.pc = "enrollment_create"]
                  ELSE [inst[w] EXCEPT !.pc = "done", !.out = "IntegrityError"]
       IN  /\ inst' = [inst EXCEPT ![w] = req]
           /\ last' = ReqLast(w, req)
    /\ UNCHANGED <<courses, modules, lessons, students, enrollments,
                   progress, seq, now>>

\* ... create(): the INSERT of the Enrollment; then redirect(...)
ReqEnrollmentCreate(w) ==
    /\ now <= MaxClock
    /\ Running(w)
    /\ inst[w].pc = "enrollment_create"
    /\ LET r == Enrollment_save(enrollments,
                                NewEnrollment(inst[w].student, inst[w].course,
                                              now),
                                AllFields, now)
           req == IF r.ok
                  THEN [inst[w] EXCEPT !.pc = "done", !.out = "redirect"]
                  ELSE IF get_or_create_on_integrity_error = "get"
                  THEN [inst[w] EXCEPT !.pc = "enrollment_retry", !.lost = TRUE]
                  ELSE [inst[w] EXCEPT !.pc = "done", !.lost = TRUE,
                                       !.out = "IntegrityError"]
       IN  /\ enrollments' = r.table
           /\ seq' = SeqAfter("enrollments", r)
           /\ inst' = [inst EXCEPT ![w] = req]
           /\ last' = ReqLast(w, req)
    /\ now' = now + 1
    /\ UNCHANGED <<courses, modules, lessons, students, progress>>

NextEnrollRace ==
    \/ \E w \in Workers, u \in Users, slug \in RequestSlugs : ReqStart(w, u, slug)
    \/ \E w \in Workers : ReqStudentGet(w)
    \/ \E w \in Workers : ReqStudentCreate(w)
    \/ \E w \in Workers : ReqEnrollmentGet(w)
    \/ \E w \in Workers : ReqEnrollmentCreate(w)

SpecEnrollRace == InitEnroll /\ [][NextEnrollRace]_vars

\* C14: however the statements of two enroll_in_course requests for the
\* same user and course interleave, the pair never has two Enrollment rows,
\* and every request for a stored course that has ended ended with the
\* redirect, the pair then having exactly one row: the request whose INSERT
\* was refused finds the other's row.
C14_EnrollRaceBothSucceed ==
    /\ \A a, b \in DOMAIN enrollments :
          (enrollments[a].student = enrollments[b].student
              /\ enrollments[a].course = enrollments[b].course) => a = b
    /\ \A w \in Workers :
          (inst[w].model = "Request" /\ inst[w].pc = "done"
              /\ inst[w].course # NoPk) =>
             /\ inst[w].out = "redirect"
             /\ Cardinality({e \in DOMAIN enrollments :
                    /\ enrollments[e].course = inst[w].course
                    /\ enrollments[e].student \in DOMAIN students
                    /\ students[enrollments[e].student].user = inst[w].user})
                   = 1

\* both requests looked before either inserted; one INSERT was refused and
\* both ended with the redirect
C14_Witness ==
    /\ \A w \in Workers :
          /\ inst[w].model = "Request"
          /\ inst[w].pc = "done"
          /\ inst[w].out = "redirect"
          /\ inst[w].user = 1
          /\ inst[w].course = 1
    /\ \E w \in Workers : inst[w].lost
    /\ Cardinality(DOMAIN enrollments) = 1
    /\ seq["enrollments"] = 2

(***************************************************************************)
(* courses/views.py: course_detail and LessonDetailView, with the          *)
(* managers the models declare (core/models.py: objects is a               *)
(* SoftDeleteManager, all_objects an AllObjectsManager).                   *)
(***************************************************************************)
\* The attributes of Course.objects, Module.objects and Lesson.objects beyond
\* those every Manager copies from QuerySet (filter, get, ...): the methods
\* SoftDeleteManager defines.  The managers of courses/managers.py are not
\* assigned to any model.
SoftDeleteManager_methods == {"get_queryset", "with_deleted", "deleted_only"}

\* course_detail(request, slug): line 22 reads
\* Module.objects.with_lessons_count before the course is looked up.
course_detail(slug) ==
    IF "with_lessons_count" \notin SoftDeleteManager_methods
    THEN "AttributeError"
    ELSE IF CourseBySlug(slug) = {} THEN "404" ELSE "ok"

CourseDetail(slug) ==
    /\ last' = StepView("course_detail", NoPk, course_detail(slug), NoRow, 0,
                        <<slug>>)
    /\ UNCHANGED <<courses, modules, lessons, students, enrollments,
                   progress, seq, inst, now>>

\* LessonDetailView.get_queryset, then get_object: Lesson.objects filtered on
\* module__course__slug; the joined module and course are not filtered on
\* is_deleted
LessonDetail_get_object(slug, id) ==
    {l \in SoftDeleteManager_get_queryset(lessons) :
        /\ l = id
        /\ courses[modules[lessons[l].module].course].slug = slug}

\* .order_by("order") on the modules of a course
RECURSIVE OrderByOrder(_)
OrderByOrder(ms) ==
    IF ms = {} THEN <<>>
    ELSE LET m == CHOOSE x \in ms :
                     \A y \in ms : modules[x].order <= modules[y].order
         IN  <<m>> \o OrderByOrder(ms \ {m})

\* The orders in which the database may return the rows of a query on
\* Lesson that has no ORDER BY: the second "class Meta" of Lesson replaces
\* the first, so the model has no default ordering.
RowOrders ==
    {o \in [1..Cardinality(DOMAIN lessons) -> DOMAIN lessons] :
        \A i, j \in DOMAIN o : o[i] = o[j] => i = j}

\* module.lessons.all() from prefetch_related("lessons"): the module's rows
\* of Lesson.objects, in the order the query returned them
PrefetchedLessons(m, rows) ==
    SelectSeq(rows, LAMBDA l : /\ l \in SoftDeleteManager_get_queryset(lessons)
                               /\ lessons[l].module = m)

\* all_lessons: for module in course.modules.all(): for les in
\* module.lessons.all()
RECURSIVE AllLessons(_, _)
AllLessons(mseq, rows) ==
    IF mseq = <<>> THEN <<>>
    ELSE PrefetchedLessons(Head(mseq), rows) \o AllLessons(Tail(mseq), rows)

\* Python's None as an index
NoIndex == -1

\* next((i for i, l in enumerate(all_lessons) if l.pk == lesson.pk), None)
CurrentIndex(all_lessons, id) ==
    LET is == {i \in 1..Len(all_lessons) : all_lessons[i] = id}
    IN  IF is = {} THEN NoIndex
        ELSE (CHOOSE i \in is : \A j \in is : i <= j) - 1

\* "if current_index and current_index > 0": None and 0 are both false
previous_lesson(all_lessons, current_index) ==
    IF current_index # NoIndex /\ current_index # 0 /\ current_index > 0
    THEN all_lessons[(current_index - 1) + 1]
    ELSE NoPk

\* "if current_index is not None and current_index < len(all_lessons) - 1"
next_lesson(all_lessons, current_index) ==
    IF current_index # NoIndex /\ current_index < Len(all_lessons) - 1
    THEN all_lessons[(current_index + 1) + 1]
    ELSE NoPk

\* LessonDetailView for /courses/<slug>/lessons/<id>/ and a logged-in user;
\* rows is the order in which the prefetch query returns the lessons.  The
\* result is the outcome and <<previous_lesson, next_lesson>>.
lesson_detail(slug, id, rows) ==
    IF LessonDetail_get_object(slug, id) = {}
    THEN [out |-> "404", nav |-> <<NoPk, NoPk>>]
    ELSE LET c == modules[lessons[id].module].course
         IN  IF c \notin SoftDeleteManager_get_queryset(courses)
             THEN [out |-> "DoesNotExist", nav |-> <<NoPk, NoPk>>]
             ELSE LET ms == {m \in SoftDeleteManager_get_queryset(modules) :
                                modules[m].course = c}
                      all_lessons == AllLessons(OrderByOrder(ms), rows)
                      current_index == CurrentIndex(all_lessons, id)
                  IN  [out |-> "ok",
                       nav |-> <<previous_lesson(all_lessons, current_index),
                                 next_lesson(all_lessons, current_index)>>]

LessonDetail(slug, id, rows) ==
    /\ LET d == lesson_detail(slug, id, rows)
       IN  last' = StepView("lesson_detail", id, d.out, RowOf(lessons, id), 0,
                            <<slug>> \o d.nav)
    /\ UNCHANGED <<courses, modules, lessons, students, enrollments,
                   progress, seq, inst, now>>

(***************************************************************************)
(* The public pages over a small catalogue: SpecViews.                     *)
(***************************************************************************)
\* Course 1 ("a"): module 1 (order 0) with lesson 1 (order 1) and lesson 2
\* (order 0), module 2 (order 1) with lesson 3.  Course 2 ("a-2") is empty.
ViewModules ==
    [id \in 1..2 |->
        [id |-> id, course |-> 1,
         title |-> IF id = 2 THEN "Basics" ELSE "Intro",
         order |-> id - 1,
         is_deleted |-> FALSE, deleted_at |-> NULL,
         created_at |-> 1, updated_at |-> 1]]

ViewLessons ==
    [id \in 1..3 |->
        [NewLesson(IF id <= 2 THEN 1 ELSE 2, IF id = 1 THEN 1 ELSE 0)
            EXCEPT !.id = id, !.created_at = 1, !.updated_at = 1]]

\* the lesson ids of the requested URLs: the stored ones and one more
RequestLessons == 1..4

InitViews ==
    /\ courses = SeedCourses
    /\ modules = ViewModules
    /\ lessons = ViewLessons
    /\ students = EmptyTable
    /\ enrollments = EmptyTable
    /\ progress = EmptyTable
    /\ seq = [t \in TableNames |->
                 CASE t = "courses" -> 2
                   [] t = "modules" -> 2
                   [] t = "lessons" -> 3
                   [] OTHER -> 0]
    /\ inst = [w \in Workers |-> NoInst]
    /\ now = 1
    /\ last = NoLast

NextViews ==
    \/ \E slug \in RequestSlugs : CourseDetail(slug)
    \/ \E slug \in RequestSlugs, id \in RequestLessons, rows \in RowOrders :
          LessonDetail(slug, id, rows)
    \/ \E slug \in RequestSlugs : Enroll(1, slug)
    \/ \E id \in DOMAIN courses : CourseSoftDelete(id)
    \/ \E id \in DOMAIN courses : CourseBulkRestore(id)
    \/ \E flt \in ModuleTitles : ModuleBulkSoftDelete("objects", flt)
    \/ \E flt \in ModuleTitles : ModuleBulkRestore("all_objects", flt)
    \/ \E id \in DOMAIN lessons : LessonSoftDelete(id)
    \/ \E id \in DOMAIN lessons : LessonRestore(id)

SpecViews == InitViews /\ [][NextViews]_vars

\* a course slug that no non-deleted course has
CourseAbsent(slug) ==
    ~\E c \in DOMAIN courses : courses[c].slug = slug /\ ~courses[c].is_deleted

\* a lesson id that is no non-deleted lesson of a non-deleted module of the
\* non-deleted course with that slug
LessonAbsent(slug, id) ==
    \/ CourseAbsent(slug)
    \/ id \notin DOMAIN lessons
    \/ /\ id \in DOMAIN lessons
       /\ \/ lessons[id].is_deleted
          \/ modules[lessons[id].module].is_deleted
          \/ courses[modules[lessons[id].module].course].slug # slug

\* C16: a request to course_detail, enroll_in_course or lesson_detail whose
\* slug or lesson id matches no non-deleted record (an unknown one, or a
\* soft-deleted course, module or lesson) ends with the 404 response, and
\* the enroll request leaves every table as it was.
C16_AbsentGives404 ==
    [][/\ (last'.op \in {"course_detail", "enroll"}
              /\ CourseAbsent(last'.arg[Len(last'.arg)]))
          => /\ last'.out = "404"
             /\ <<courses, students, enrollments>>'
                   = <<courses, students, enrollments>>
       /\ (last'.op = "lesson_detail" /\ LessonAbsent(last'.arg[1], last'.id))
          => last'.out = "404"]_vars

(***************************************************************************)
(* Soft-deleting enrollments, then hard-deleting what they reference:      *)
(* SpecPurge.                                                              *)
(***************************************************************************)
NextPurge ==
    \/ \E e \in DOMAIN enrollments, l \in DOMAIN lessons, done \in BOOLEAN :
          ProgressCreate(e, l, done)
    \/ \E id \in DOMAIN enrollments : EnrollmentSoftDelete(id)
    \/ \E id \in DOMAIN enrollments : EnrollmentRestore(id)
    \/ \E model \in HardDeleteModels, id \in 1..2 : HardDelete(model, id)

SpecPurge == InitProgress /\ [][NextPurge]_vars

\* C17: when a course has enrollments and all of them are soft-deleted (and
\* no lesson of the course has a progress row), hard_delete of the course
\* succeeds and removes the course.
C17_HardDeleteAfterSoftDeletedEnrollments ==
    [][(/\ last'.op = "hard_delete"
        /\ last'.arg = <<"Course">>
        /\ \E e \in DOMAIN enrollments : enrollments[e].course = last'.id
        /\ \A e \in DOMAIN enrollments :
              enrollments[e].course = last'.id => enrollments[e].is_deleted
        /\ ~\E p \in DOMAIN progress :
              progress[p].lesson \in LessonsBelow("Course", last'.id))
          => /\ last'.out = "ok"
             /\ last'.id \notin DOMAIN courses']_vars

\* the non-deleted lessons of the non-deleted modules of course c
CourseLessons(c) ==
    {l \in DOMAIN lessons :
        /\ ~lessons[l].is_deleted
        /\ ~modules[lessons[l].module].is_deleted
        /\ modules[lessons[l].module].course = c}

\* lesson a comes before lesson b in the order (module.order, lesson.order)
Before(a, b) ==
    \/ modules[lessons[a].module].order < modules[lessons[b].module].order
    \/ /\ modules[lessons[a].module].order = modules[lessons[b].module].order
       /\ lessons[a].order < lessons[b].order

\* C18: on a rendered lesson page, previous_lesson is the lesson just before
\* the displayed one and next_lesson the one just after it among the
\* non-deleted lessons of the course ordered by (module.order, lesson.order);
\* each is None exactly when there is no such lesson.
C18_PreviousNextFollowOrder ==
    (/\ last.op = "lesson_detail"
     /\ last.out = "ok"
     /\ last.id \in CourseLessons(modules[lessons[last.id].module].course))
        => LET ls == CourseLessons(modules[lessons[last.id].module].course)
               before == {l \in ls : Before(l, last.id)}
               after == {l \in ls : Before(last.id, l)}
           IN  /\ IF before = {} THEN last.arg[2] = NoPk
                  ELSE /\ last.arg[2] \in before
                       /\ \A l \in before \ {last.arg[2]} : Before(l, last.arg[2])
               /\ IF after = {} THEN last.arg[3] = NoPk
                  ELSE /\ last.arg[3] \in after
                       /\ \A l \in after \ {last.arg[3]} : Before(last.arg[3], l)

\* C19: whenever the requested course is stored and not soft-deleted,
\* enroll_in_course ends with the redirect, and afterwards the user has a
\* non-deleted Student and that student a non-deleted Enrollment in the
\* course - also when a soft-deleted Student of the user or a soft-deleted
\* Enrollment of the pair was already stored.
C19_EnrollAlwaysEnrolls ==
    (last.op = "enroll" /\ ~CourseAbsent(last.arg[2])) =>
        /\ last.out = "redirect"
        /\ \E st \in SoftDeleteManager_get_queryset(students),
              e \in SoftDeleteManager_get_queryset(enrollments) :
              /\ students[st].user = last.arg[1]
              /\ enrollments[e].student = st
              /\ courses[enrollments[e].course].slug = last.arg[2]

(***************************************************************************)
(* Properties of the progress column over soft-deleted and foreign lessons *)
(* (SpecProgress).                                                         *)
(***************************************************************************)
\* C21: whenever the progress column of an enrollment is rendered, the
\* completed-lesson count it shows is at most the total-lesson count it shows
\* and the percentage lies between 0 and 100, also after lessons with
\* completed progress were soft-deleted and with progress rows on lessons of
\* another course.
C21_CompletedAtMostTotal ==
    last.op = "progress_display" =>
        /\ last.out = "ok"
        /\ last.arg[1] <= last.arg[2]
        /\ last.arg[3] \in 0..100

(***************************************************************************)
(* courses/managers.py: the count annotations over a catalogue whose       *)
(* modules, lessons and enrollments are created, soft-deleted and          *)
(* restored: SpecCatalogue.                                                *)
(***************************************************************************)
MaxLessons == 3

LessonOrders == {0, 1}

\* UniqueConstraint(fields=["module", "order"])
unique_lesson_order_per_module(table) ==
    \A a, b \in DOMAIN table :
        (table[a].module = table[b].module /\ table[a].order = table[b].order)
            => a = b

\* Model.save on the Lesson table
Lesson_save(table, obj, fields, t) ==
    LET r == Model_save(table, obj, fields, t, NextPk("lessons"))
    IN  Constrained(r, table, obj, unique_lesson_order_per_module(r.table))

\* LessonInline (add) of a module of the default view: Lesson(...).save()
LessonCreate(m, o) ==
    /\ now <= MaxClock
    /\ Cardinality(DOMAIN lessons) < MaxLessons
    /\ m \in SoftDeleteManager_get_queryset(modules)
    /\ LET r == Lesson_save(lessons, NewLesson(m, o), AllFields, now)
       IN  /\ lessons' = r.table
           /\ seq' = SeqAfter("lessons", r)
           /\ last' = Step("lesson_create", 0, r.obj.id, r.ok, NoRow, 0)
    /\ now' = now + 1
    /\ UNCHANGED <<courses, modules, students, enrollments, progress, inst>>

\* The rows of  module LEFT JOIN lessons  for module m; the join does not
\* filter on is_deleted.
ModuleJoinRows(m) ==
    {<<l>> : l \in OrNull({l \in DOMAIN lessons : lessons[l].module = m})}

\* with_lessons_count: lessons_count
with_lessons_count(m) == <<Count_distinct(ModuleJoinRows(m), 1)>>

\* ModuleQuerySet(Module).filter(is_deleted=False).with_lessons_count(),
\* the annotation of module m
WithLessonsCount(m) ==
    /\ m \in SoftDeleteManager_get_queryset(modules)
    /\ last' = StepView("with_lessons_count", m, "ok", modules[m], 0,
                        with_lessons_count(m))
    /\ UNCHANGED <<courses, modules, lessons, students, enrollments,
                   progress, seq, inst, now>>

\* Two courses; the first has one module with one lesson; nobody is enrolled.
InitCatalogue ==
    /\ courses = SeedCourses
    /\ modules = [id \in {1} |-> SeedModules[id]]
    /\ lessons = [id \in {1} |-> SeedLessons[id]]
    /\ students = EmptyTable
    /\ enrollments = EmptyTable
    /\ progress = EmptyTable
    /\ seq = [t \in TableNames |->
                 CASE t = "courses" -> 2
                   [] t \in {"modules", "lessons"} -> 1
                   [] OTHER -> 0]
    /\ inst = [w \in Workers |-> NoInst]
    /\ now = 1
    /\ last = NoLast

NextCatalogue ==
    \/ \E c \in DOMAIN courses : WithFullCounts(c)
    \/ \E m \in DOMAIN modules : WithLessonsCount(m)
    \/ \E c \in DOMAIN courses, ti \in ModuleTitles, o \in ModuleOrders :
          ModuleCreate(1, c, ti, o)
    \/ \E m \in DOMAIN modules, o \in LessonOrders : LessonCreate(m, o)
    \/ \E u \in Users : Enroll(u, SeedCourse.slug)
    \/ \E mgr \in Managers : ModuleBulkSoftDelete(mgr, "all")
    \/ \E mgr \in Managers : ModuleBulkRestore(mgr, "all")
    \/ \E id \in DOMAIN lessons : LessonSoftDelete(id)
    \/ \E id \in DOMAIN lessons : LessonRestore(id)
    \/ \E id \in DOMAIN enrollments : EnrollmentSoftDelete(id)
    \/ \E id \in DOMAIN enrollments : EnrollmentRestore(id)

SpecCatalogue == InitCatalogue /\ [][NextCatalogue]_vars

\* C22: the counts of with_full_counts for a course are the numbers of its
\* non-deleted modules, of the non-deleted lessons of those modules and of
\* its non-deleted enrollments, and the count of with_lessons_count for a
\* module is the number of its non-deleted lessons, after any creations,
\* soft-deletes and restores of modules, lessons and enrollments.
C22_CountsAgreeWithDefaultView ==
    /\ last.op = "with_full_counts" =>
          LET ms == {m \in SoftDeleteManager_get_queryset(modules) :
                        modules[m].course = last.id}
          IN  /\ last.arg[1] = Cardinality(ms)
              /\ last.arg[2] =
                    Cardinality({l \in SoftDeleteManager_get_queryset(lessons) :
                                    lessons[l].module \in ms})
              /\ last.arg[3] =
                    Cardinality({e \in SoftDeleteManager_get_queryset(enrollments) :
                                    enrollments[e].course = last.id})
    /\ last.op = "with_lessons_count" =>
          last.arg[1] =
              Cardinality({l \in SoftDeleteManager_get_queryset(lessons) :
                              lessons[l].module = last.id})

====
